---- MODULE Spec2Model ----
(***************************************************************************)
(* VideoThumbnailGenerator of video_thumbnail.py as a state machine.       *)
(*                                                                         *)
(* Each generator instance is a sequential process whose program counter   *)
(* walks through create_thumbnail; the steps are cut at the points where   *)
(* the code touches the file system, the decoder or the scene detector, so *)
(* that generators running on different upload threads interleave there.   *)
(* Thresholds are kept in hundredths (0.3 is 30).                          *)
(***************************************************************************)
EXTENDS Integers, Sequences, FiniteSets, TLC

VARIABLES
    pc,         \* per generator: position inside __init__ / create_thumbnail
    cfg,        \* per generator: the fields set by __init__
    call,       \* per generator: arguments of the current (or last) create_thumbnail
    ncalls,     \* per generator: create_thumbnail calls made so far
    status,     \* per generator: outcome of the current (or last) call
    capOpen,    \* per generator: the cv2.VideoCapture of the call is open
    frames,     \* per generator: the local list `frames`
    selected,   \* per generator: the local list `selected_files` (file numbers)
    attempts,   \* per generator: detector invocations of the current call
    fellBack,   \* per generator: the call reached the fallback at line 275
    output,     \* per generator: the image last saved to output_path
    builds,     \* per generator: grids saved by the current call
    dirExists,  \* per temp directory: it exists on disk
    files,      \* per temp directory: scene_NNN.jpg number -> content
    calc        \* inputs and results of one isolated sampling + compositing run

vars == <<pc, cfg, call, ncalls, status, capOpen, frames, selected, attempts,
          fellBack, output, builds, dirExists, files, calc>>

(***************************************************************************)
(* Bounds of the model                                                     *)
(***************************************************************************)
MaxScene == 2       \* most frame files one detector run writes
MaxCalls == 2       \* most create_thumbnail calls on one instance
MaxT == 6           \* longest video (frames) of the isolated runs
MaxRows == 3        \* largest rows of the isolated runs
MaxCols == 3        \* largest cols of the isolated runs

(***************************************************************************)
(* Program constants and input sets                                        *)
(***************************************************************************)
Gens == {"g1", "g2"}

DefaultTempDir == "thumbnails_temp"
TempDirs == {DefaultTempDir, "custom_temp"}

DefaultThumbWidth == 320
DefaultSceneThreshold == 30
OrchestratorSceneThreshold == 10
StartThresholds == {DefaultSceneThreshold, OrchestratorSceneThreshold}

\* "scene_change" is the (unrecognised) mode string of the usage notes at the
\* end of the file.
Modes == {"timeframe", "scenechange", "scene_change"}

\* A video: whether cv2 can open it, CAP_PROP_FRAME_COUNT, and the frame
\* indices at which cap.read() fails.
Videos ==
    { [id |-> "a", openable |-> TRUE,  total |-> 4, bad |-> {}],
      [id |-> "b", openable |-> TRUE,  total |-> 3, bad |-> {2}],
      [id |-> "c", openable |-> FALSE, total |-> 0, bad |-> {}] }
NoVideo == [id |-> "none", openable |-> FALSE, total |-> 0, bad |-> {}]

\* (rows, cols) of a generator used on its own.
Shapes == { <<1, 1>>, <<1, 2>> }

\* thumb_size[0] of the isolated runs.
ThumbWidths == {10, 24, DefaultThumbWidth}

NoFile == [src |-> "none", owner |-> "", att |-> 0, n |-> 0]
VideoFrame(v, idx) == [src |-> "video", owner |-> v.id, att |-> 0, n |-> idx]
SceneFrame(g, a, i) == [src |-> "scene", owner |-> g, att |-> a, n |-> i]

NoGrid == [width |-> 0, height |-> 0, cell_width |-> 0, cell_height |-> 0,
           cells |-> <<>>]
NoCfg == [video |-> NoVideo, temp_dir |-> DefaultTempDir, rows |-> 1, cols |-> 1,
          thumb_width |-> DefaultThumbWidth]
NoCall == [mode |-> "timeframe", thr |-> DefaultSceneThreshold, cleanup |-> TRUE]
NoCalc == [stage |-> "off", total |-> 0, rows |-> 0, cols |-> 0, thumb_width |-> 0,
           indices |-> <<>>, grid |-> NoGrid]

Final == {"ok", "InvalidMode", "VideoOpen", "DetectorStart", "FrameOpen", "BuildError"}

Min(a, b) == IF a < b THEN a ELSE b

(***************************************************************************)
(* Pure helpers                                                            *)
(***************************************************************************)

\* Variant: the samples run up to total_frames instead of total_frames - 1.
LinspaceStopAtTotal(total, num) ==
    IF num = 1 THEN <<0>>
    ELSE [i \in 1..num |-> ((i - 1) * total) \div (num - 1)]

\* np.linspace(0, total_frames - 1, num, dtype=int): num evenly spaced reals
\* from 0 to total_frames - 1 (a single sample is the start), each floored to
\* an integer; the last sample is set to the stop value itself.  The samples
\* are i * ((T-1)/(N-1)); for the small T and N used here the double result
\* has the same floor as the exact quotient.
LinspaceIndices(total, num) ==
    IF num = 1 THEN <<0>>
    ELSE [i \in 1..num |-> ((i - 1) * (total - 1)) \div (num - 1)]

\* cap.set / cap.read for one index: the frame, when the read succeeds.
Decodes(v, idx) == idx >= 0 /\ idx < v.total /\ idx \notin v.bad

RECURSIVE DecodeAll(_, _)
DecodeAll(v, idxs) ==
    IF idxs = <<>> THEN <<>>
    ELSE LET rest == DecodeAll(v, Tail(idxs))
         IN  IF Decodes(v, Head(idxs))
             THEN <<VideoFrame(v, Head(idxs))>> \o rest
             ELSE rest

\* The list `frames` at line 248.
SampledFrames(v, rows, cols) == DecodeAll(v, LinspaceIndices(v.total, rows * cols))

\* Variant: the handle is released only when every read succeeded.
CapReleasedOnlyWhenComplete(decoded, wanted) == decoded < wanted

\* Whether the capture is still open after the read loop: cap.release() at
\* line 246 follows the loop unconditionally.
CapAfterSampling(decoded, wanted) == FALSE

\* thresholds at line 258.
Ladder(start) == <<start, 15, 8, 5, 2>>
LadderLen == 5

\* Variant: the height rounded to the nearest integer.
GridHeightRounded(grid_width) == (grid_width * 9 + 8) \div 16

\* int(grid_width / (16 / 9)): grid_width * 9 / 16 truncated (the double
\* quotient truncates to the exact floor for every width up to 2,000,000).
GridHeight(grid_width) == (grid_width * 9) \div 16

\* _build_grid: the canvas and the paste position of every frame.
BuildGrid(fs, rows, cols, thumb_width) ==
    LET grid_width  == thumb_width * cols
        grid_height == GridHeight(grid_width)
        cell_width  == grid_width \div cols
        cell_height == grid_height \div rows
    IN  [width |-> grid_width, height |-> grid_height,
         cell_width |-> cell_width, cell_height |-> cell_height,
         cells |-> [i \in 1..Len(fs) |->
                      [x |-> ((i - 1) % cols) * cell_width,
                       y |-> ((i - 1) \div cols) * cell_height,
                       frame |-> fs[i]]]]

\* Variant: an unrecognised mode is taken for "timeframe".
ModeBranchDefaultsToTimeframe(mode) ==
    IF mode = "scenechange" THEN "sc_clear" ELSE "tf_open"

\* mode dispatch of create_thumbnail, lines 214-219.
ModeBranch(mode) ==
    IF mode = "timeframe" THEN "tf_open"
    ELSE IF mode = "scenechange" THEN "sc_clear"
    ELSE "raise"

\* Variant: an attempt counts as a success only when it fills the grid.
AfterAttemptNeedsFullGrid(listed, a, wanted) ==
    IF listed >= wanted THEN "compose"
    ELSE IF a < LadderLen THEN "retry"
    ELSE "fallback"

\* Variant: the first empty attempt goes straight to the fallback.
AfterAttemptGivesUpEarly(listed, a, wanted) ==
    IF listed > 0 THEN "compose" ELSE "fallback"

\* The loop of _create_scenechange_grid_auto after one attempt listed
\* `listed` files, `a` being the attempt's position in the ladder.
AfterAttempt(listed, a, wanted) ==
    IF listed > 0 THEN "compose"
    ELSE IF a < LadderLen THEN "retry"
    ELSE "fallback"

\* sorted(glob("scene_*.jpg")) in directory d: the numbers of the files there.
Listing(d) ==
    LET present == {n \in 1..MaxScene : files[d][n] # NoFile}
    IN  [i \in 1..Cardinality(present) |->
            CHOOSE n \in present : Cardinality({m \in present : m < n}) = i - 1]

NumThumbnails(g) == cfg[g].rows * cfg[g].cols

(***************************************************************************)
(* Initial state: no generator constructed, no temp directory on disk.     *)
(***************************************************************************)
InitGenerators ==
    /\ pc = [g \in Gens |-> "new"]
    /\ cfg = [g \in Gens |-> NoCfg]
    /\ call = [g \in Gens |-> NoCall]
    /\ ncalls = [g \in Gens |-> 0]
    /\ status = [g \in Gens |-> "none"]
    /\ capOpen = [g \in Gens |-> FALSE]
    /\ frames = [g \in Gens |-> <<>>]
    /\ selected = [g \in Gens |-> <<>>]
    /\ attempts = [g \in Gens |-> <<>>]
    /\ fellBack = [g \in Gens |-> FALSE]
    /\ output = [g \in Gens |-> NoGrid]
    /\ builds = [g \in Gens |-> 0]
    /\ dirExists = [d \in TempDirs |-> FALSE]
    /\ files = [d \in TempDirs |-> [n \in 1..MaxScene |-> NoFile]]

Init ==
    /\ InitGenerators
    /\ calc = NoCalc

(***************************************************************************)
(* __init__                                                                *)
(***************************************************************************)
Construct(g, videos, dirs, shapes) ==
    /\ pc[g] = "new"
    /\ \E v \in videos, d \in dirs, s \in shapes :
          /\ cfg' = [cfg EXCEPT ![g] = [video |-> v, temp_dir |-> d,
                                        rows |-> s[1], cols |-> s[2],
                                        thumb_width |-> DefaultThumbWidth]]
          /\ dirExists' = [dirExists EXCEPT ![d] = TRUE]
    /\ pc' = [pc EXCEPT ![g] = "idle"]
    /\ UNCHANGED <<call, ncalls, status, capOpen, frames, selected, attempts,
                   fellBack, output, builds, files, calc>>

(***************************************************************************)
(* create_thumbnail: entry and mode dispatch                               *)
(***************************************************************************)
Call(g, modes, thresholds, limit) ==
    /\ pc[g] = "idle"
    /\ ncalls[g] < limit
    /\ \E m \in modes, t \in thresholds, c \in BOOLEAN :
          \* scene_threshold is read by the scenechange branch only
          /\ m # "scenechange" => t = DefaultSceneThreshold
          /\ call' = [call EXCEPT ![g] = [mode |-> m, thr |-> t, cleanup |-> c]]
          /\ IF ModeBranch(m) = "raise"
             THEN /\ status' = [status EXCEPT ![g] = "InvalidMode"]
                  /\ pc' = pc
             ELSE /\ status' = [status EXCEPT ![g] = "running"]
                  /\ pc' = [pc EXCEPT ![g] = ModeBranch(m)]
    /\ ncalls' = [ncalls EXCEPT ![g] = @ + 1]
    /\ frames' = [frames EXCEPT ![g] = <<>>]
    /\ selected' = [selected EXCEPT ![g] = <<>>]
    /\ attempts' = [attempts EXCEPT ![g] = <<>>]
    /\ fellBack' = [fellBack EXCEPT ![g] = FALSE]
    /\ builds' = [builds EXCEPT ![g] = 0]
    /\ UNCHANGED <<cfg, capOpen, output, dirExists, files, calc>>

(***************************************************************************)
(* _create_timeframe_grid                                                  *)
(***************************************************************************)
TfOpen(g) ==
    /\ pc[g] = "tf_open"
    /\ IF cfg[g].video.openable
       THEN /\ capOpen' = [capOpen EXCEPT ![g] = TRUE]
            /\ pc' = [pc EXCEPT ![g] = "tf_sample"]
            /\ status' = status
       ELSE /\ capOpen' = capOpen
            /\ pc' = [pc EXCEPT ![g] = "idle"]
            /\ status' = [status EXCEPT ![g] = "VideoOpen"]
    /\ UNCHANGED <<cfg, call, ncalls, frames, selected, attempts, fellBack,
                   output, builds, dirExists, files, calc>>

TfSample(g) ==
    /\ pc[g] = "tf_sample"
    /\ LET fs == SampledFrames(cfg[g].video, cfg[g].rows, cfg[g].cols)
       IN  /\ frames' = [frames EXCEPT ![g] = fs]
           /\ capOpen' = [capOpen EXCEPT ![g] =
                             CapAfterSampling(Len(fs), NumThumbnails(g))]
    /\ pc' = [pc EXCEPT ![g] = "build"]
    /\ UNCHANGED <<cfg, call, ncalls, status, selected, attempts, fellBack,
                   output, builds, dirExists, files, calc>>

(***************************************************************************)
(* _build_grid, and the return to create_thumbnail (lines 221-222)         *)
(***************************************************************************)
Build(g) ==
    /\ pc[g] = "build"
    /\ \E saved \in BOOLEAN :
          IF saved
          THEN /\ output' = [output EXCEPT ![g] =
                       BuildGrid(frames[g], cfg[g].rows, cfg[g].cols,
                                 cfg[g].thumb_width)]
               /\ builds' = [builds EXCEPT ![g] = @ + 1]
               /\ IF call[g].cleanup
                  THEN /\ pc' = [pc EXCEPT ![g] = "cleanup"]
                       /\ status' = status
                  ELSE /\ pc' = [pc EXCEPT ![g] = "idle"]
                       /\ status' = [status EXCEPT ![g] = "ok"]
          ELSE /\ output' = output
               /\ builds' = builds
               /\ pc' = [pc EXCEPT ![g] = "idle"]
               /\ status' = [status EXCEPT ![g] = "BuildError"]
    \* the strategy function returns (or unwinds): its locals are gone
    /\ frames' = [frames EXCEPT ![g] = <<>>]
    /\ selected' = [selected EXCEPT ![g] = <<>>]
    /\ UNCHANGED <<cfg, call, ncalls, capOpen, attempts, fellBack, dirExists,
                   files, calc>>

(***************************************************************************)
(* _cleanup_temp_dir: rmtree, with every exception caught                  *)
(***************************************************************************)
Cleanup(g) ==
    /\ pc[g] = "cleanup"
    /\ LET d == cfg[g].temp_dir
       IN  \E removed \in BOOLEAN :
              IF removed /\ dirExists[d]
              THEN /\ dirExists' = [dirExists EXCEPT ![d] = FALSE]
                   /\ files' = [files EXCEPT ![d] = [n \in 1..MaxScene |-> NoFile]]
              ELSE UNCHANGED <<dirExists, files>>
    /\ pc' = [pc EXCEPT ![g] = "idle"]
    /\ status' = [status EXCEPT ![g] = "ok"]
    /\ UNCHANGED <<cfg, call, ncalls, capOpen, frames, selected, attempts,
                   fellBack, output, builds, calc>>

(***************************************************************************)
(* _extract_scenechange_frames, one step per file-system interaction       *)
(***************************************************************************)
\* lines 279-280: remove every scene_*.jpg of the temp directory
ScClear(g) ==
    /\ pc[g] = "sc_clear"
    /\ files' = [files EXCEPT ![cfg[g].temp_dir] = [n \in 1..MaxScene |-> NoFile]]
    /\ pc' = [pc EXCEPT ![g] = "sc_detect"]
    /\ UNCHANGED <<cfg, call, ncalls, status, capOpen, frames, selected,
                   attempts, fellBack, output, builds, dirExists, calc>>

\* line 296: subprocess.run(ffmpeg_cmd, check=False).  A non-zero exit is
\* ignored; an executable that cannot be started raises from subprocess.run.
\* ffmpeg writes scene_001.jpg .. scene_00k.jpg over whatever is there, and
\* nothing when the directory is missing.
ScDetect(g) ==
    /\ pc[g] = "sc_detect"
    /\ LET d == cfg[g].temp_dir
           a == Len(attempts[g]) + 1
           t == Ladder(call[g].thr)[a]
       IN  \E res \in {"cannot_start", "exit_error", "ran"}, k \in 0..MaxScene :
              /\ res = "ran" \/ k = 0
              /\ k > 0 => dirExists[d]
              /\ attempts' = [attempts EXCEPT ![g] =
                                Append(@, [thr |-> t, listed |-> -1])]
              /\ files' = [files EXCEPT ![d] =
                             [n \in 1..MaxScene |->
                                 IF n <= k THEN SceneFrame(g, a, n) ELSE @[n]]]
              /\ IF res = "cannot_start"
                 THEN /\ status' = [status EXCEPT ![g] = "DetectorStart"]
                      /\ pc' = [pc EXCEPT ![g] = "idle"]
                 ELSE /\ status' = status
                      /\ pc' = [pc EXCEPT ![g] = "sc_glob"]
    /\ UNCHANGED <<cfg, call, ncalls, capOpen, frames, selected, fellBack,
                   output, builds, dirExists, calc>>

\* lines 298-300 and the branch at lines 263-275
ScGlob(g) ==
    /\ pc[g] = "sc_glob"
    /\ LET frame_files == Listing(cfg[g].temp_dir)
           a == Len(attempts[g])
           next == AfterAttempt(Len(frame_files), a, NumThumbnails(g))
       IN  /\ attempts' = [attempts EXCEPT ![g][a].listed = Len(frame_files)]
           /\ selected' = [selected EXCEPT ![g] =
                             IF next = "compose"
                             THEN SubSeq(frame_files, 1,
                                         Min(NumThumbnails(g), Len(frame_files)))
                             ELSE <<>>]
           /\ fellBack' = [fellBack EXCEPT ![g] = (next = "fallback")]
           /\ pc' = [pc EXCEPT ![g] =
                        IF next = "compose" THEN "sc_open"
                        ELSE IF next = "retry" THEN "sc_clear"
                        ELSE "tf_open"]
    /\ UNCHANGED <<cfg, call, ncalls, status, capOpen, frames, output, builds,
                   dirExists, files, calc>>

\* line 266: Image.open of every selected file; a file that is gone raises
ScOpen(g) ==
    /\ pc[g] = "sc_open"
    /\ LET d == cfg[g].temp_dir
       IN  IF \A i \in 1..Len(selected[g]) : files[d][selected[g][i]] # NoFile
           THEN /\ frames' = [frames EXCEPT ![g] =
                       [i \in 1..Len(selected[g]) |-> files[d][selected[g][i]]]]
                /\ selected' = selected
                /\ pc' = [pc EXCEPT ![g] = "build"]
                /\ status' = status
           ELSE /\ frames' = frames
                /\ selected' = [selected EXCEPT ![g] = <<>>]
                /\ pc' = [pc EXCEPT ![g] = "idle"]
                /\ status' = [status EXCEPT ![g] = "FrameOpen"]
    /\ UNCHANGED <<cfg, call, ncalls, capOpen, attempts, fellBack, output,
                   builds, dirExists, files, calc>>

(***************************************************************************)
(* One instance used by one thread: any arguments, up to MaxCalls calls.   *)
(***************************************************************************)
Main == "g1"

Next ==
    \/ Construct(Main, Videos, TempDirs, Shapes)
    \/ Call(Main, Modes, StartThresholds, MaxCalls)
    \/ TfOpen(Main)
    \/ TfSample(Main)
    \/ Build(Main)
    \/ Cleanup(Main)
    \/ ScClear(Main)
    \/ ScDetect(Main)
    \/ ScGlob(Main)
    \/ ScOpen(Main)

Spec == Init /\ [][Next]_vars

(***************************************************************************)
(* Upload threads: every thread constructs its own generator and calls     *)
(* create_thumbnail once with scene_threshold=0.1 (process_video_and_      *)
(* upload, started per click by upload_file); the steps of the threads     *)
(* interleave.                                                             *)
(***************************************************************************)
OrchestratorShapes == { <<4, 4>> }
ThreadModes == {"timeframe", "scenechange"}

NextConcurrent ==
    \E g \in Gens :
        \/ Construct(g, Videos, TempDirs, OrchestratorShapes)
        \/ Call(g, ThreadModes, {OrchestratorSceneThreshold}, 1)
        \/ TfOpen(g)
        \/ TfSample(g)
        \/ Build(g)
        \/ Cleanup(g)
        \/ ScClear(g)
        \/ ScDetect(g)
        \/ ScGlob(g)
        \/ ScOpen(g)

SpecConcurrent == Init /\ [][NextConcurrent]_vars

(***************************************************************************)
(* Isolated runs of the sampling arithmetic and the compositor: the        *)
(* inputs range over every video length, grid shape and cell width of the  *)
(* bounds, and every read succeeds.                                        *)
(***************************************************************************)
InitFn ==
    /\ InitGenerators
    /\ \E T \in 1..MaxT, r \in 1..MaxRows, c \in 1..MaxCols, w \in ThumbWidths :
          calc = [stage |-> "input", total |-> T, rows |-> r, cols |-> c,
                  thumb_width |-> w, indices |-> <<>>, grid |-> NoGrid]

\* lines 233-236
FnSample ==
    /\ calc.stage = "input"
    /\ calc' = [calc EXCEPT !.stage = "sampled",
                            !.indices = LinspaceIndices(calc.total,
                                                        calc.rows * calc.cols)]
    /\ UNCHANGED <<pc, cfg, call, ncalls, status, capOpen, frames, selected,
                   attempts, fellBack, output, builds, dirExists, files>>

\* lines 239-249
FnBuild ==
    /\ calc.stage = "sampled"
    /\ LET v  == [id |-> "v", openable |-> TRUE, total |-> calc.total, bad |-> {}]
           fs == DecodeAll(v, calc.indices)
       IN  calc' = [calc EXCEPT !.stage = "built",
                                !.grid = BuildGrid(fs, calc.rows, calc.cols,
                                                   calc.thumb_width)]
    /\ UNCHANGED <<pc, cfg, call, ncalls, status, capOpen, frames, selected,
                   attempts, fellBack, output, builds, dirExists, files>>

NextFn == FnSample \/ FnBuild

SpecFn == InitFn /\ [][NextFn]_vars

(***************************************************************************)
(* Properties                                                              *)
(***************************************************************************)
Finished(g) == pc[g] = "idle" /\ status[g] \in Final

\* C1: after any create_thumbnail call made with cleanup=True the temp
\* directory does not exist, whichever way the call ended (normally or by
\* raising).
C1_TempDirGoneAfterCleanupCall ==
    \A g \in Gens :
        (Finished(g) /\ call[g].cleanup) => ~dirExists[cfg[g].temp_dir]

\* C2: a call with a mode that is neither "timeframe" nor "scenechange" ends
\* in that same step with the invalid-mode error, and the step opens no video,
\* invokes no detector, writes no output image and leaves every temp
\* directory and its contents as they were.
C2_InvalidModeBeforeAnyIO ==
    [][\A g \in Gens :
          (ncalls'[g] # ncalls[g] /\ call'[g].mode \notin {"timeframe", "scenechange"})
          => /\ status'[g] = "InvalidMode"
             /\ pc'[g] = "idle"
             /\ capOpen' = capOpen
             /\ attempts'[g] = <<>>
             /\ builds'[g] = 0
             /\ output' = output
             /\ dirExists' = dirExists
             /\ files' = files]_vars

\* An invalid-mode call made while the temp directory still holds the frame
\* files of an earlier cleanup=False call.
C2_Witness ==
    \E g \in Gens :
        /\ status[g] = "InvalidMode"
        /\ call[g].cleanup
        /\ dirExists[cfg[g].temp_dir]
        /\ files[cfg[g].temp_dir][1] # NoFile

\* C3: in scenechange mode an attempt that listed one or more frames is the
\* last detector invocation of the call: no fallback follows, the grid is
\* saved at most once, and a call that gets past _build_grid saved it exactly
\* once, from the first rows*cols frames of that attempt.
C3_StopAtFirstSuccess ==
    \A g \in Gens : \A i \in 1..Len(attempts[g]) :
        attempts[g][i].listed > 0 =>
            /\ i = Len(attempts[g])
            /\ ~fellBack[g]
            /\ pc[g] \in {"sc_open", "build", "cleanup", "idle"}
            /\ builds[g] <= 1
            /\ (pc[g] = "cleanup" \/ status[g] = "ok") =>
                  /\ builds[g] = 1
                  /\ Len(output[g].cells)
                        = Min(NumThumbnails(g), attempts[g][i].listed)
                  /\ \A j \in 1..Len(output[g].cells) :
                        output[g].cells[j].frame = SceneFrame(g, i, j)

\* A call that succeeded at its second threshold with more frames than cells.
C3_Witness ==
    \E g \in Gens :
        /\ status[g] = "ok"
        /\ Len(attempts[g]) = 2
        /\ attempts[g][2].listed = 2
        /\ NumThumbnails(g) = 1
        /\ builds[g] = 1

\* What _create_timeframe_grid saves for a generator's video and grid shape.
TimeframeGrid(c) ==
    BuildGrid(SampledFrames(c.video, c.rows, c.cols), c.rows, c.cols, c.thumb_width)

\* C4: the fallback is reached only after all five thresholds were tried and
\* each listed zero frames; and a call that ran time-based sampling, directly
\* (mode timeframe) or as the fallback, fails to open exactly the videos that
\* cannot be opened and otherwise saves the same grid, the one determined by
\* the video and the grid shape alone.
C4_FallbackEqualsTimeframe ==
    \A g \in Gens :
        /\ fellBack[g] =>
              /\ Len(attempts[g]) = LadderLen
              /\ \A i \in 1..LadderLen :
                    /\ attempts[g][i].listed = 0
                    /\ attempts[g][i].thr = Ladder(call[g].thr)[i]
        /\ (Finished(g) /\ (fellBack[g] \/ call[g].mode = "timeframe")) =>
              /\ status[g] \in {"ok", "VideoOpen", "BuildError"}
              /\ (status[g] = "VideoOpen") <=> ~cfg[g].video.openable
              /\ status[g] = "ok" => output[g] = TimeframeGrid(cfg[g])

\* A fallback call that saved a grid in which one read had failed.
C4_Witness ==
    \E g \in Gens :
        /\ Finished(g)
        /\ status[g] = "ok"
        /\ fellBack[g]
        /\ NumThumbnails(g) = 2
        /\ Len(output[g].cells) = 1

\* C5: the thresholds at which the detector is invoked in one call start with
\* the requested threshold, then use only ladder entries strictly below it,
\* and never increase.
C5_ThresholdsNonIncreasing ==
    \A g \in Gens :
        \A i \in 1..Len(attempts[g]) :
            /\ i = 1 => attempts[g][i].thr = call[g].thr
            /\ i > 1 => /\ attempts[g][i].thr <= attempts[g][i - 1].thr
                        /\ attempts[g][i].thr < call[g].thr
                        /\ attempts[g][i].thr \in {15, 8, 5, 2}

\* C6: with generators for different videos running concurrently, the frames
\* an invocation composites are the frames its own current detector run
\* wrote, and no step of one invocation removes a frame file written by
\* another invocation that is still running.
C6_OwnWorkspace ==
    [][\A g \in Gens : \A h \in Gens \ {g} :
          cfg[g].video # cfg[h].video =>
             /\ (pc[g] = "sc_open" /\ pc'[g] = "build") =>
                   \A i \in 1..Len(frames'[g]) :
                       frames'[g][i] = SceneFrame(g, Len(attempts[g]), selected[g][i])
             /\ (pc'[g] # pc[g] /\ pc[h] \notin {"new", "idle"}) =>
                   \A d \in TempDirs : \A n \in 1..MaxScene :
                       files[d][n].owner = h => files'[d][n] # NoFile]_vars

\* C7: a detector invocation that fails never makes create_thumbnail raise.
C7_DetectorFailureNonFatal ==
    \A g \in Gens : status[g] # "DetectorStart"

\* C8: once create_thumbnail has ended, normally or by raising, the video
\* handle it opened is closed (it is open only while the frames are read).
C8_HandleClosedAfterCall ==
    \A g \in Gens :
        /\ Finished(g) => ~capOpen[g]
        /\ capOpen[g] => pc[g] = "tf_sample"

\* A fallback call that opened the video, lost a frame to a failed read and
\* then ended by raising from _build_grid.
C8_Witness ==
    \E g \in Gens :
        /\ Finished(g)
        /\ status[g] = "BuildError"
        /\ fellBack[g]
        /\ NumThumbnails(g) = 2
        /\ cfg[g].video.bad # {}
        /\ ~capOpen[g]

\* C9: for rows, cols >= 1 and T >= 1 the rows*cols sampled indices are
\* non-decreasing and within 0..T-1, and when there are two or more of them
\* the first is 0 and the last is T-1.
C9_SampledIndices ==
    calc.stage \in {"sampled", "built"} =>
        LET ix == calc.indices
            N  == calc.rows * calc.cols
        IN  /\ Len(ix) = N
            /\ \A i \in 1..N : 0 <= ix[i] /\ ix[i] <= calc.total - 1
            /\ \A i \in 1..N : \A j \in i..N : ix[i] <= ix[j]
            /\ N > 1 => ix[1] = 0 /\ ix[N] = calc.total - 1

C9_Witness ==
    /\ calc.stage = "sampled"
    /\ calc.total = 5
    /\ calc.rows * calc.cols = 4
    /\ calc.indices = <<0, 1, 2, 4>>

\* Every pasted frame i (counted from 0) sits at row i \div cols, column
\* i % cols of cells of height grid.height \div rows, inside the canvas.
CellsInsideCanvas(grid, rows, cols) ==
    \A i \in 1..Len(grid.cells) :
        LET cell == grid.cells[i]
        IN  /\ cell.x = ((i - 1) % cols) * (grid.width \div cols)
            /\ cell.y = ((i - 1) \div cols) * (grid.height \div rows)
            /\ cell.x >= 0 /\ cell.y >= 0
            /\ cell.x + (grid.width \div cols) <= grid.width
            /\ cell.y + (grid.height \div rows) <= grid.height

\* The integer nearest to num/den (den even, a tie going to the even one).
NearestInt(num, den) ==
    LET q == num \div den
        r == num % den
    IN  IF 2 * r < den THEN q
        ELSE IF 2 * r > den THEN q + 1
        ELSE IF q % 2 = 0 THEN q ELSE q + 1

\* C10 as stated: the grid is thumb_width*cols wide and
\* round(thumb_width*cols*9/16) high, and every pasted frame is inside it.
C10_HeightIsRounded ==
    calc.stage = "built" =>
        /\ calc.grid.width = calc.thumb_width * calc.cols
        /\ calc.grid.height = NearestInt(calc.thumb_width * calc.cols * 9, 16)
        /\ CellsInsideCanvas(calc.grid, calc.rows, calc.cols)

\* C10 amended: the grid is thumb_width*cols wide and as high as
\* thumb_width*cols*9/16 truncated to an integer, and every pasted frame is
\* inside it.
C10_HeightIsTruncated ==
    calc.stage = "built" =>
        /\ calc.grid.width = calc.thumb_width * calc.cols
        /\ calc.grid.height * 16 <= calc.thumb_width * calc.cols * 9
        /\ calc.thumb_width * calc.cols * 9 < (calc.grid.height + 1) * 16
        /\ CellsInsideCanvas(calc.grid, calc.rows, calc.cols)

\* A full 2x3 grid of 10-pixel cells: 30 wide, 16 high (16.875 truncated).
C10_Witness ==
    /\ calc.stage = "built"
    /\ calc.thumb_width = 10
    /\ calc.rows = 2
    /\ calc.cols = 3
    /\ Len(calc.grid.cells) = 6
    /\ calc.grid.height = 16

\* C11: on one instance, whatever calls were made before, the temp directory
\* created by __init__ exists whenever the scene detector is about to be
\* invoked.
C11_TempDirExistsAtDetection ==
    \A g \in Gens : pc[g] = "sc_detect" => dirExists[cfg[g].temp_dir]

====
